---- MODULE Spec2Model ----
(***************************************************************************)
(* The demonstrations of the repository that touch shared or external      *)
(* state, as one state machine: the three concurrency demonstrations       *)
(*   cpp11/standard_library/std_thread.cpp                                 *)
(*   cpp14/standard_library/std_shared_timed_mutex.cpp                     *)
(*   cpp20/standard_library/std_latch.cpp                                  *)
(* and the sequential demonstrations                                       *)
(*   cpp17/standard_library/std_filesystem.cpp                             *)
(*   cpp11/standard_library/std_regex.cpp                                  *)
(*   cpp17/standard_library/std_optional.cpp                               *)
(*   cpp11/standard_library/smart_pointers.cpp                             *)
(* Each demonstration is an independent program;                           *)
(* the variable prog says which one is running.  Every thread of a program *)
(* (main included) executes a list of instructions that is transcribed     *)
(* from its callable, one instruction per statement that touches shared    *)
(* state: a std::thread object, a mutex, a latch, the shared data, stdout. *)
(* sleep_for only delays a thread; every interleaving is explored, so the  *)
(* delays are not instructions.  A line written to std::cout is one step.  *)
(***************************************************************************)
EXTENDS Integers, Sequences, FiniteSets, TLC

VARIABLES
    prog,        \* the program that runs
    pc,          \* per thread: 0 not started, i next instruction, Len+1 finished
    tobj,        \* per std::thread object: "none", "joinable", "joined", "destroyed"
    joins,       \* per std::thread object: the number of join() calls that returned
    terminated,  \* std::terminate was called
    out,         \* std_thread.cpp: the lines on standard output, in order
    sum_result,  \* std_thread.cpp: long long sum_result
    latch,       \* std_latch.cpp: per latch, its internal counter
    constructed, \* std_latch.cpp: the latches whose constructor has run
    waiting,     \* std_latch.cpp: per latch, the threads blocked in wait()
    fastPath,    \* std_latch.cpp: threads whose last wait() saw a zero counter
    mtx,         \* std_shared_timed_mutex.cpp: per mutex, exclusive and shared owners
    value,       \* std_shared_timed_mutex.cpp: SharedData::value
    log,         \* std_shared_timed_mutex.cpp: SharedData::log, one entry per line
    err,         \* the lines on standard error, in order
    fs,          \* the filesystem: per path, what is there
    perm,        \* the filesystem: what the process may do in the working directory
    raised,      \* the exceptions thrown so far, in order
    opt,         \* std_optional.cpp: per std::optional<int>, what it holds
    num_deleted, \* std_filesystem.cpp: uintmax_t num_deleted
    ptr,         \* smart_pointers.cpp: per smart pointer, the object it points to
    use_count,   \* smart_pointers.cpp: per object, the count of its control block
    obj          \* smart_pointers.cpp: per object, constructor and destructor runs

vars == <<prog, pc, tobj, joins, terminated, out, sum_result, latch,
          constructed, waiting, fastPath, mtx, value, log,
          err, fs, perm, num_deleted, raised, opt, ptr, use_count, obj>>

Programs == {"std_thread", "std_shared_timed_mutex", "std_latch"}
\* the sequential demonstrations, and all of them
SeqPrograms == {"std_filesystem", "std_regex", "std_optional", "smart_pointers"}
AllPrograms == Programs \cup SeqPrograms
\* the programs whose standard output is kept in out
OrderedOutput == {"std_thread"} \cup SeqPrograms

Main == <<"main", 0>>

(***************************************************************************)
(* Instructions.                                                           *)
(***************************************************************************)
Cout(msg) == [op |-> "cout", msg |-> msg]
\* a line that ends with the value of sum_result
CoutSum(msg) == [op |-> "cout", msg |-> msg, val |-> "sum_result"]
SpawnI(t) == [op |-> "spawn", t |-> t]
JoinI(t) == [op |-> "join", t |-> t]
JoinIfJoinableI(t) == [op |-> "join_if_joinable", t |-> t]
ClearI(ts) == [op |-> "clear", ts |-> ts]
ReturnI(ts) == [op |-> "return", ts |-> ts]

(***************************************************************************)
(* std_thread.cpp                                                          *)
(***************************************************************************)
DataSize == 1000

data_to_sum == [i \in 1..DataSize |-> i]

\* for (int val : v) current_sum += val;  summed by halves, which keeps the
\* evaluation shallow and gives the same long long total.
RECURSIVE SumRange(_, _, _)
SumRange(v, lo, hi) ==
    IF lo > hi THEN 0
    ELSE IF lo = hi THEN v[lo]
    ELSE LET mid == (lo + hi) \div 2
         IN SumRange(v, lo, mid) + SumRange(v, mid + 1, hi)

task_function(id, duration_ms) ==
    << Cout("Thread " \o ToString(id) \o ": Starting task."),
       Cout("Thread " \o ToString(id) \o ": Finished task after "
            \o ToString(duration_ms) \o "ms.") >>

t2_lambda(id) ==
    << Cout("Thread " \o ToString(id) \o " (lambda): Starting."),
       Cout("Thread " \o ToString(id) \o " (lambda): Exiting.") >>

MyWorker_process(id, data) ==
    << Cout("Worker " \o ToString(id) \o ": Processing data " \o ToString(data)),
       Cout("Worker " \o ToString(id) \o ": Finished processing data "
            \o ToString(data)) >>

\* sum_vector is only ever called on data_to_sum
sum_of_data == SumRange(data_to_sum, 1, Len(data_to_sum))

sum_vector ==
    << [op |-> "sum"],
       CoutSum("Thread (sum_vector): Calculated sum = ") >>

StdThreadObjects ==
    {<<"t", 1>>, <<"t", 2>>, <<"t", 3>>, <<"t_id_example", 5>>, <<"t_sum", 0>>}

\* Mutant: main forgets t3.join().
main_std_thread_NoJoin3 ==
    << Cout("--- Basic Thread Creation and Joining ---"),
       SpawnI(<<"t", 1>>),
       SpawnI(<<"t", 2>>),
       SpawnI(<<"t", 3>>),
       Cout("Main thread: All threads launched."),
       JoinI(<<"t", 1>>),
       Cout("Main thread: t1 joined."),
       JoinI(<<"t", 2>>),
       Cout("Main thread: t2 joined."),
       Cout("Main thread: Program finished."),
       ReturnI({<<"t", 1>>, <<"t", 2>>, <<"t", 3>>}) >>

main_std_thread ==
    << Cout("--- Basic Thread Creation and Joining ---"),
       SpawnI(<<"t", 1>>),
       SpawnI(<<"t", 2>>),
       SpawnI(<<"t", 3>>),
       Cout("Main thread: All threads launched."),
       JoinI(<<"t", 1>>),
       Cout("Main thread: t1 joined."),
       JoinI(<<"t", 2>>),
       Cout("Main thread: t2 joined."),
       JoinI(<<"t", 3>>),
       Cout("Main thread: t3 joined."),
       Cout("--- Detaching a Thread (Use with Caution) ---"),
       Cout("(Detach example commented out for predictable output without sleeps in main)"),
       Cout("--- Getting Thread ID ---"),
       SpawnI(<<"t_id_example", 5>>),
       Cout("Main thread ID: (id)"),
       Cout("t_id_example thread ID: (id)"),
       JoinI(<<"t_id_example", 5>>),
       Cout("--- Returning a value from a thread (via reference) ---"),
       SpawnI(<<"t_sum", 0>>),
       JoinI(<<"t_sum", 0>>),
       CoutSum("Main thread: Sum calculated by t_sum = "),
       Cout("--- Hardware Concurrency ---"),
       Cout("Number of concurrent threads supported (hint): (n_cores)"),
       Cout("Main thread: Program finished."),
       ReturnI(StdThreadObjects) >>

StdThreadCode(t) ==
    CASE t = <<"t", 1>> -> task_function(1, 200)
      [] t = <<"t", 2>> -> t2_lambda(2)
      [] t = <<"t", 3>> -> MyWorker_process(3, 5)
      [] t = <<"t_id_example", 5>> -> task_function(5, 50)
      [] t = <<"t_sum", 0>> -> sum_vector

(***************************************************************************)
(* std_latch.cpp                                                           *)
(***************************************************************************)
LatchI(l, n) == [op |-> "latch", l |-> l, n |-> n]
CountDownI(l) == [op |-> "count_down", l |-> l]
WaitI(l) == [op |-> "wait", l |-> l]
ArriveAndWaitI(l) == [op |-> "arrive_and_wait", l |-> l]

num_workers == 5
num_dependents == 3

Latches == {"workers_finished_latch", "setup_complete_latch", "rendezvous_latch"}

\* Mutant: the worker counts down twice.
worker_task_Twice(id, completion_latch, work_duration_ms) ==
    << Cout("Worker " \o ToString(id) \o " completed work after "
            \o ToString(work_duration_ms) \o "ms. Decrementing latch."),
       CountDownI(completion_latch),
       CountDownI(completion_latch) >>

worker_task(id, completion_latch, work_duration_ms) ==
    << Cout("Worker " \o ToString(id) \o " completed work after "
            \o ToString(work_duration_ms) \o "ms. Decrementing latch."),
       CountDownI(completion_latch) >>

dependent_task(id, start_latch) ==
    << Cout("Dependent task " \o ToString(id) \o " is waiting on the latch..."),
       WaitI(start_latch),
       Cout("Dependent task " \o ToString(id) \o " unblocked and proceeding."),
       Cout("Dependent task " \o ToString(id) \o " finished.") >>

\* Mutant: the thread counts down and goes on without waiting.
rendezvous_lambda_NoWait(i, rendezvous_latch) ==
    << Cout("Thread " \o ToString(i + 1) \o " arriving at rendezvous latch."),
       CountDownI(rendezvous_latch),
       Cout("Thread " \o ToString(i + 1) \o " passed rendezvous latch.") >>

rendezvous_lambda(i, rendezvous_latch) ==
    << Cout("Thread " \o ToString(i + 1) \o " arriving at rendezvous latch."),
       ArriveAndWaitI(rendezvous_latch),
       Cout("Thread " \o ToString(i + 1) \o " passed rendezvous latch.") >>

Workers == {<<"worker", i>> : i \in 1..num_workers}
Dependents == {<<"dependent", i>> : i \in 1..num_dependents}
Rendezvous == {<<"rendezvous", i>> : i \in 1..num_workers}

StdLatchObjects == Workers \cup Dependents \cup Rendezvous

main_std_latch ==
    << Cout("--- std::latch (C++20) ---"),
       Cout("Scenario 1: Main thread waits for workers."),
       LatchI("workers_finished_latch", num_workers) >>
    \o [i \in 1..num_workers |-> SpawnI(<<"worker", i>>)]
    \o << Cout("Main thread: All workers launched. Waiting for them to finish..."),
          WaitI("workers_finished_latch"),
          Cout("Main thread: All workers have finished. Proceeding.") >>
    \o [i \in 1..num_workers |-> JoinIfJoinableI(<<"worker", i>>)]
    \o << ClearI(Workers),
          Cout("Scenario 2: dependent tasks wait for a 'setup' latch (count 1)."),
          LatchI("setup_complete_latch", 1) >>
    \o [i \in 1..num_dependents |-> SpawnI(<<"dependent", i>>)]
    \o << Cout("Main thread: Dependent tasks launched. Simulating setup phase (200ms)..."),
          Cout("Main thread: Setup phase complete. Signaling latch (count_down)."),
          CountDownI("setup_complete_latch") >>
    \o [i \in 1..num_dependents |-> JoinIfJoinableI(<<"dependent", i>>)]
    \o << ClearI(Dependents),
          Cout("Scenario 3: threads using arrive_and_wait."),
          LatchI("rendezvous_latch", num_workers) >>
    \o [i \in 1..num_workers |-> SpawnI(<<"rendezvous", i>>)]
    \o [i \in 1..num_workers |-> JoinIfJoinableI(<<"rendezvous", i>>)]
    \o << ClearI(Rendezvous),
          Cout("std::latch example finished."),
          ReturnI({}) >>

StdLatchCode(t) ==
    CASE t[1] = "worker" -> worker_task(t[2], "workers_finished_latch", 50 + ((t[2] - 1) * 20))
      [] t[1] = "dependent" -> dependent_task(t[2], "setup_complete_latch")
      [] t[1] = "rendezvous" -> rendezvous_lambda(t[2] - 1, "rendezvous_latch")

(***************************************************************************)
(* std_shared_timed_mutex.cpp                                              *)
(***************************************************************************)
LockI(m) == [op |-> "lock", m |-> m]
UnlockI(m) == [op |-> "unlock", m |-> m]
LockSharedI(m) == [op |-> "lock_shared", m |-> m]
UnlockSharedI(m) == [op |-> "unlock_shared", m |-> m]
WriteI(id) == [op |-> "write", id |-> id]
ReadI(id, m) == [op |-> "read", id |-> id, m |-> m]
\* The three attempts of main: on failure control skips else_skip instructions.
TryToLockI(m, k) == [op |-> "try_to_lock", m |-> m, else_skip |-> k]
TryLockForI(m, ms, k) ==
    [op |-> "try_lock_for", m |-> m, timeout_ms |-> ms, else_skip |-> k]
TryLockSharedForI(m, ms, k) ==
    [op |-> "try_lock_shared_for", m |-> m, timeout_ms |-> ms, else_skip |-> k]
SkipI(k) == [op |-> "skip", k |-> k]

Mutexes == {"data.mutex_", "timed_mtx"}

\* reader_thread's num_reads.  main passes 5 (line 71); the model runs NumReads
\* iterations of the loop.
NumReads == 1
NumReaders == 5

Repeat(body, n) == [k \in 1..(n * Len(body)) |-> body[((k - 1) % Len(body)) + 1]]

writer_thread(id, num_writes) ==
    Repeat(<< LockI("data.mutex_"), WriteI(id), UnlockI("data.mutex_") >>, num_writes)

\* The body of an iteration runs under the shared lock and only writes a line;
\* it is one instruction with the release at the end of the iteration.
reader_thread(id, num_reads) ==
    Repeat(<< LockSharedI("data.mutex_"), ReadI(id, "data.mutex_") >>, num_reads)

\* Mutant: t_holder takes the lock with a timed attempt and branches on it.
t_holder_lambda_Timed ==
    << TryLockForI("timed_mtx", 200, 2),
       Cout("(Thread t_holder now holds the exclusive lock for 200ms)"),
       UnlockI("timed_mtx") >>

t_holder_lambda ==
    << LockI("timed_mtx"),
       Cout("(Thread t_holder now holds the exclusive lock for 200ms)"),
       UnlockI("timed_mtx") >>

t_shared_holder_lambda ==
    << LockSharedI("timed_mtx"),
       Cout("(Thread t_shared_holder now holds a shared lock for 200ms)"),
       UnlockSharedI("timed_mtx") >>

Writers == {<<"writer", 1>>, <<"writer", 2>>}
Readers == {<<"reader", i>> : i \in 1..NumReaders}
threads_vector ==
    << <<"writer", 1>>, <<"writer", 2>> >> \o [i \in 1..NumReaders |-> <<"reader", i>>]

StdMutexObjects == Writers \cup Readers \cup {<<"t_holder", 0>>, <<"t_shared_holder", 0>>}

main_std_shared_timed_mutex ==
    << Cout("--- std::shared_timed_mutex Demo ---"),
       Cout("Launching 2 writer threads and 5 reader threads.") >>
    \o [i \in 1..Len(threads_vector) |-> SpawnI(threads_vector[i])]
    \o [i \in 1..Len(threads_vector) |-> JoinIfJoinableI(threads_vector[i])]
    \o << Cout("--- Final Log Content ---"),
          LockSharedI("data.mutex_"),
          Cout("(shared_resource.log)"),
          Cout("Final value: (shared_resource.value)"),
          UnlockSharedI("data.mutex_"),
          Cout("--- Timed Lock Attempts (Conceptual) ---"),
          TryToLockI("timed_mtx", 3),
          Cout("Exclusive lock acquired immediately via try_to_lock."),
          UnlockI("timed_mtx"),
          SkipI(1),
          Cout("Could not acquire exclusive lock immediately via try_to_lock."),
          SpawnI(<<"t_holder", 0>>),
          Cout("Main attempting try_lock_for (exclusive) for 100ms..."),
          TryLockForI("timed_mtx", 100, 3),
          Cout("Main acquired exclusive lock via try_lock_for."),
          UnlockI("timed_mtx"),
          SkipI(1),
          Cout("Main failed to acquire exclusive lock via try_lock_for within 100ms."),
          JoinIfJoinableI(<<"t_holder", 0>>),
          SpawnI(<<"t_shared_holder", 0>>),
          Cout("Main attempting try_lock_shared_for for 100ms..."),
          TryLockSharedForI("timed_mtx", 100, 3),
          Cout("Main acquired shared lock via try_lock_shared_for."),
          UnlockSharedI("timed_mtx"),
          SkipI(1),
          Cout("Main failed to acquire shared lock via try_lock_shared_for within 100ms."),
          JoinIfJoinableI(<<"t_shared_holder", 0>>),
          ReturnI(StdMutexObjects) >>

StdMutexCode(t) ==
    CASE t = <<"writer", 1>> -> writer_thread(1, 3)
      [] t = <<"writer", 2>> -> writer_thread(2, 2)
      [] t[1] = "reader" -> reader_thread(t[2], NumReads)
      [] t = <<"t_holder", 0>> -> t_holder_lambda
      [] t = <<"t_shared_holder", 0>> -> t_shared_holder_lambda

(***************************************************************************)
(* Sequential demonstrations: branches and try blocks.                     *)
(* An instruction that tests a result carries else_skip, the number of     *)
(* instructions of its then-branch (and of the jump that ends it); an      *)
(* instruction inside a try block carries catch_skip, the number of        *)
(* instructions between it and the handler, and catch_type, the exception  *)
(* type of the handler.                                                    *)
(***************************************************************************)
With(ins, field, v) == (field :> v) @@ ins

If(test, then) == << With(test, "else_skip", Len(then)) >> \o then

IfElse(test, then, else) ==
    << With(test, "else_skip", Len(then) + 1) >> \o then
    \o << SkipI(Len(else)) >> \o else

Try(body, type, handler) ==
    [i \in 1..Len(body) |->
        IF "catch_skip" \in DOMAIN body[i] THEN body[i]
        ELSE With(With(body[i], "catch_skip", Len(body) - i + 1), "catch_type", type)]
    \o << SkipI(Len(handler)) >> \o handler

Cerr(msg) == [op |-> "cerr", msg |-> msg]
\* a line that ends with e.what() of the exception being handled
CoutWhat(msg) == [op |-> "cout", msg |-> msg, val |-> "e.what()"]
CerrWhat(msg) == [op |-> "cerr", msg |-> msg, val |-> "e.what()"]

(***************************************************************************)
(* std_filesystem.cpp: the filesystem the program runs in.                 *)
(***************************************************************************)
current_dir == "."
testDir == "./my_test_dir"
subdir1 == "./my_test_dir/subdir1"
nestedDir == "./my_test_dir/subdir1/subdir2"
dummyTxt == "./my_test_dir/subdir1/subdir2/dummy.txt"
tempFile == "./temp_example_file.txt"
\* entries the program does not name: the executable in the working
\* directory, and something left in ./my_test_dir by an earlier run or user
executable == "./filesystem_example"
leftover == "./my_test_dir/leftover"

Paths == {current_dir, testDir, subdir1, nestedDir, dummyTxt, tempFile,
          executable, leftover}

Parent(p) ==
    CASE p = dummyTxt -> nestedDir
      [] p = nestedDir -> subdir1
      [] p = subdir1 -> testDir
      [] p = leftover -> testDir
      [] OTHER -> current_dir

\* p is d or lies below d
RECURSIVE Under(_, _)
Under(p, d) ==
    IF p = d THEN TRUE
    ELSE IF p = current_dir THEN FALSE
    ELSE Under(Parent(p), d)

NoEntry == [kind |-> "none", data |-> "", size |-> 0]
Dir == [kind |-> "dir", data |-> "", size |-> 0]
File(data, size) == [kind |-> "file", data |-> data, size |-> size]

Exists(f, p) == f[p].kind # "none"
IsDirectory(f, p) == f[p].kind = "dir"
IsRegularFile(f, p) == f[p].kind = "file"
Children(f, d) == {p \in Paths \ {d} : Parent(p) = d /\ Exists(f, p)}
Tree(f, d) == {p \in Paths : Under(p, d) /\ Exists(f, p)}
\* the directories from ./x down to p
Chain(p) == {d \in Paths \ {current_dir} : Under(p, d)}

\* What the working directory may hold when the program starts.
BareDirectory ==
    [p \in Paths |->
        IF p = current_dir THEN Dir
        ELSE IF p = executable THEN File("ELF", 3)
        ELSE NoEntry]

TestDirStates ==
    { BareDirectory,
      [BareDirectory EXCEPT ![testDir] = Dir],
      [BareDirectory EXCEPT ![testDir] = Dir, ![leftover] = File("old", 3)],
      [BareDirectory EXCEPT ![testDir] = Dir, ![subdir1] = Dir, ![nestedDir] = Dir],
      [BareDirectory EXCEPT ![testDir] = File("old", 3)] }

InitialFilesystems ==
    { [f EXCEPT ![tempFile] = e] :
        f \in TestDirStates, e \in {NoEntry, File("old", 3), Dir} }

\* search and read, write: what the process may do in the working directory
\* and below
Permissions == { {"r", "w"}, {"r"}, {"w"} }

(***************************************************************************)
(* std::filesystem operations (the overloads without error_code, which     *)
(* throw filesystem_error) and std::ofstream, as the sets of outcomes.     *)
(***************************************************************************)
Returns(v, f) == [threw |-> FALSE, value |-> v, fs |-> f, what |-> ""]
Throws(f, what, p) ==
    [threw |-> TRUE, value |-> FALSE, fs |-> f,
     what |-> "filesystem error: " \o what \o " [" \o p \o "]"]

\* An existing non-directory: the C++17 text returns false, the resolution
\* of LWG 3014 (libstdc++, libc++) reports an error.
create_directory(f, pm, p) ==
    IF IsDirectory(f, p) THEN { Returns(FALSE, f) }
    ELSE IF Exists(f, p)
        THEN { Returns(FALSE, f), Throws(f, "cannot create directory: File exists", p) }
    ELSE IF ~IsDirectory(f, Parent(p))
        THEN { Throws(f, "cannot create directory: No such file or directory", p) }
    ELSE IF "w" \notin pm
        THEN { Throws(f, "cannot create directory: Permission denied", p) }
    ELSE { Returns(TRUE, [f EXCEPT ![p] = Dir]) }

create_directories(f, pm, p) ==
    IF IsDirectory(f, p) THEN { Returns(FALSE, f) }
    ELSE IF \E d \in Chain(p) : Exists(f, d) /\ ~IsDirectory(f, d)
        THEN { Throws(f, "cannot create directories: Not a directory", p) }
    ELSE IF "w" \notin pm
        THEN { Throws(f, "cannot create directories: Permission denied", p) }
    ELSE { Returns(TRUE, [q \in Paths |-> IF q \in Chain(p) THEN Dir ELSE f[q]]) }

\* std::ofstream(p) << data: the stream does not throw; a file that cannot
\* be opened leaves the stream failed and nothing is written
ofstream(f, pm, p, data, size) ==
    IF IsDirectory(f, Parent(p)) /\ ~IsDirectory(f, p) /\ "w" \in pm
    THEN [f EXCEPT ![p] = File(data, size)]
    ELSE f

remove(f, pm, p) ==
    IF ~Exists(f, p) THEN { Returns(FALSE, f) }
    ELSE IF "w" \notin pm
        THEN { Throws(f, "cannot remove: Permission denied", p) }
    ELSE IF IsDirectory(f, p) /\ Children(f, p) # {}
        THEN { Throws(f, "cannot remove: Directory not empty", p) }
    ELSE { Returns(TRUE, [f EXCEPT ![p] = NoEntry]) }

remove_all_WorkingDirectory(f, pm, p) ==
    IF ~Exists(f, p) THEN { Returns(0, f) }
    ELSE { Returns(Cardinality(Tree(f, current_dir)) - 1,
                   [q \in Paths |-> IF q = current_dir THEN f[q] ELSE NoEntry]) }

remove_all(f, pm, p) ==
    IF ~Exists(f, p) THEN { Returns(0, f) }
    ELSE IF "w" \notin pm
        THEN { Throws(f, "cannot remove all: Permission denied", p) }
    ELSE { Returns(Cardinality(Tree(f, p)),
                   [q \in Paths |-> IF Under(q, p) THEN NoEntry ELSE f[q]]) }

file_size(f, pm, p) ==
    IF IsRegularFile(f, p) THEN { Returns(f[p].size, f) }
    ELSE IF IsDirectory(f, p)
        THEN { Throws(f, "cannot get file size: Is a directory", p) }
    ELSE { Throws(f, "cannot get file size: No such file or directory", p) }

last_write_time(f, pm, p) ==
    IF Exists(f, p) THEN { Returns(TRUE, f) }
    ELSE { Throws(f, "cannot get file time: No such file or directory", p) }

directory_iterator(f, pm, p) ==
    IF "r" \notin pm
        THEN { Throws(f, "directory iterator cannot open directory: Permission denied", p) }
    ELSE { Returns(Children(f, p), f) }

(***************************************************************************)
(* std_filesystem.cpp: the program.                                        *)
(***************************************************************************)
CreateDirectoryI(p) == [op |-> "create_directory", p |-> p]
CreateDirectoriesI(p) == [op |-> "create_directories", p |-> p]
OfstreamI(p, data, size) == [op |-> "ofstream", p |-> p, data |-> data, size |-> size]
RemoveI(p) == [op |-> "remove", p |-> p]
RemoveAllI(p) == [op |-> "remove_all", p |-> p]
\* if (fs::exists(p) && fs::is_directory(p)), if (!fs::exists(p)), if (fs::exists(p))
TestI(cond, p) == [op |-> "test", cond |-> cond, p |-> p]
\* the loops of lines 92-104
DirectoryIteratorI(p) == [op |-> "directory_iterator", p |-> p]
FileSizeI(msg, p) == [op |-> "file_size", msg |-> msg, p |-> p]
LastWriteTimeI(p) == [op |-> "last_write_time", p |-> p]
\* a line that ends with the value of num_deleted
CoutNumDeleted(msg) == [op |-> "cout", msg |-> msg, val |-> "num_deleted"]
\* a line that ends with std::boolalpha << fs::is_regular_file(p), fs::is_directory(p)
CoutIs(msg, kind, p) == [op |-> "cout", msg |-> msg, val |-> "is", kind |-> kind, p |-> p]

print_path_info(p) ==
    << Cout("Path: \"" \o p \o "\""),
       Cout("  String: " \o p),
       Cout("  Root name: "),
       Cout("  Root directory: "),
       Cout("  Root path: "),
       Cout("  Relative path: " \o p),
       Cout("  Parent path: ./temp_dir/another_dir"),
       Cout("  Filename: file.txt"),
       Cout("  Stem: file"),
       Cout("  Extension: .txt"),
       Cout("  Is absolute: false"),
       Cout("  Is relative: true") >>

main_std_filesystem ==
    << Cout("--- std::filesystem (C++17) --- "),
       Cout("1. Basic Path Operations:") >>
    \o print_path_info("./temp_dir/another_dir/file.txt")
    \o << Cout("Composed path: ./test_directory/example.txt"),
          Cout("2. Creating and Deleting Directories:"),
          Cout("Creating directory: " \o testDir) >>
    \o IfElse(CreateDirectoryI(testDir),
          << Cout("  Directory created successfully.") >>,
          IfElse(TestI("exists_and_is_directory", testDir),
              << Cout("  Directory already exists.") >>,
              << Cout("  Failed to create directory (or it's a file).") >>))
    \o << Cout("Creating nested directory: " \o nestedDir) >>
    \o IfElse(CreateDirectoriesI(nestedDir),
          << Cout("  Nested directories created successfully.") >>,
          << Cout("  Failed to create nested directories (or they exist).") >>)
    \o << OfstreamI(dummyTxt, "content", 7),
          Cout("Deleting file: " \o dummyTxt) >>
    \o IfElse(RemoveI(dummyTxt),
          << Cout("  File deleted successfully.") >>,
          << Cout("  Failed to delete file.") >>)
    \o << Cout("Deleting directory (recursive): " \o testDir),
          RemoveAllI(testDir),
          CoutNumDeleted("  Number of files/directories deleted: ") >>
    \o IfElse(TestI("not_exists", testDir),
          << Cout("  Directory " \o testDir \o " successfully removed.") >>,
          << Cout("  Directory " \o testDir \o " NOT removed.") >>)
    \o << Cout("3. Iterating Directory Contents (current dir '.'). Errors ignored for simplicity:") >>
    \o Try(<< DirectoryIteratorI(current_dir) >>,
           "filesystem_error",
           << CerrWhat("Filesystem error during iteration: ") >>)
    \o << Cout("4. File Properties (for a newly created file):"),
          OfstreamI(tempFile, "Hello Filesystem!", 17) >>
    \o IfElse(TestI("exists", tempFile),
          << Cout("File: " \o tempFile),
             CoutIs("  Is regular file: ", "file", tempFile),
             CoutIs("  Is directory: ", "dir", tempFile) >>
          \o Try(<< FileSizeI("  File size: ", tempFile),
                    LastWriteTimeI(tempFile),
                    Cout("  Last write time: (requires complex conversion to print meaningfully in C++17)") >>,
                 "filesystem_error",
                 << CerrWhat("  Error accessing file properties: ") >>),
          << Cout("File " \o tempFile \o " does not exist or is not accessible.") >>)
    \o If(RemoveI(tempFile), << >>)
    \o << Cout("5. Copying, Renaming, Moving (Conceptual):"),
          Cout("  (Copy/Rename/Move operations commented out to prevent side-effects in tests)."),
          Cout("Filesystem example finished."),
          ReturnI({}) >>

(***************************************************************************)
(* std_regex.cpp: the std::regex objects main constructs and the handler   *)
(* of section 6.  The constructor throws regex_error for a pattern that    *)
(* is not well formed; what the valid patterns match is not modelled.      *)
(***************************************************************************)
\* line 46: sub.*
r1 == << "s", "u", "b", ".", "*" >>
\* line 62: Date: (\d{4})-(\d{2})-(\d{2})
date_regex ==
    << "D", "a", "t", "e", ":", " ", "(", "\\", "d", "{", "4", "}", ")",
       "-", "(", "\\", "d", "{", "2", "}", ")", "-", "(", "\\", "d", "{",
       "2", "}", ")" >>
\* line 75: \d+
num_regex == << "\\", "d", "+" >>
\* line 90: hello
word_hello == << "h", "e", "l", "l", "o" >>
\* line 98: (\w+), (\w+)
name_pattern ==
    << "(", "\\", "w", "+", ")", ",", " ", "(", "\\", "w", "+", ")" >>
\* line 106: (\w+)(?:, |$)
fruit_regex ==
    << "(", "\\", "w", "+", ")", "(", "?", ":", ",", " ", "|", "$", ")" >>
\* line 110: [\w.-]+@[\w.-]+\.\w+
email_regex ==
    << "[", "\\", "w", ".", "-", "]", "+", "@", "[", "\\", "w", ".", "-",
       "]", "+", "\\", ".", "\\", "w", "+" >>
\* line 119: [a-z
invalid_regex == << "[", "a", "-", "z" >>

\* The error the constructor reports for pattern p read from position i on,
\* inside a bracket expression or not, with depth groups open: "none" for a
\* well-formed pattern.
RECURSIVE regex_error_code(_, _, _, _)
regex_error_code(p, i, inBracket, depth) ==
    IF i > Len(p)
        THEN IF inBracket THEN "error_brack"
             ELSE IF depth > 0 THEN "error_paren"
             ELSE "none"
    ELSE IF p[i] = "\\"
        THEN IF i = Len(p) THEN "error_escape"
             ELSE regex_error_code(p, i + 2, inBracket, depth)
    ELSE IF inBracket THEN regex_error_code(p, i + 1, p[i] # "]", depth)
    ELSE IF p[i] = "[" THEN regex_error_code(p, i + 1, TRUE, depth)
    ELSE IF p[i] = "(" THEN regex_error_code(p, i + 1, FALSE, depth + 1)
    ELSE IF p[i] = ")"
        THEN IF depth = 0 THEN "error_paren"
             ELSE regex_error_code(p, i + 1, FALSE, depth - 1)
    ELSE regex_error_code(p, i + 1, FALSE, depth)

RegexI(pattern) == [op |-> "regex", pattern |-> pattern]
\* a line that ends with e.code()
CoutCode(msg) == [op |-> "cout", msg |-> msg, val |-> "e.code()"]

main_std_regex ==
    << Cout("--- std::regex_match ---"),
       RegexI(r1),
       RegexI(date_regex),
       Cout("--- std::regex_search ---"),
       RegexI(num_regex),
       Cout("--- std::regex_replace ---"),
       RegexI(word_hello),
       RegexI(name_pattern),
       RegexI(fruit_regex),
       Cout("--- Iterating fruits with capture groups ---"),
       RegexI(email_regex),
       Cout("--- Finding email addresses ---"),
       Cout("(Regex syntax options like std::regex_constants::extended are available but not detailed here.)"),
       Cout("--- Regex Error Handling ---") >>
    \o Try(<< RegexI(invalid_regex),
              Cout("This line won't be printed if regex is invalid.") >>,
           "regex_error",
           << Cout("std::regex_error caught:"),
              CoutWhat("  what(): "),
              CoutCode("  code(): ") >>
           \o If(TestI("code_is", "error_brack"),
                 << Cout("  Error was 'error_brack' - unbalanced brackets.") >>))
    \o << ReturnI({}) >>

(***************************************************************************)
(* std_optional.cpp: the std::optional<int> objects of main.               *)
(***************************************************************************)
nullopt == [has |-> FALSE, v |-> 0]
Some(v) == [has |-> TRUE, v |-> v]
Optionals == {"opt_int1", "opt_int2", "opt_int3"}

\* construction, assignment, emplace
OptAssignI(o, x) == [op |-> "opt_assign", p |-> o, x |-> x]
\* o.value()
OptValueI(o) == [op |-> "opt_value", p |-> o]
\* lines that end with *o, o.has_value(), o.value_or(d)
CoutOpt(msg, o) == [op |-> "cout", msg |-> msg, val |-> "*", p |-> o]
CoutHasValue(msg, o) == [op |-> "cout", msg |-> msg, val |-> "has_value", p |-> o]
CoutValueOr(msg, o, d) == [op |-> "cout", msg |-> msg, val |-> "value_or", p |-> o, d |-> d]

main_std_optional ==
    << Cout("--- std::optional (C++17) ---"),
       Cout("1. Creating optionals:"),
       OptAssignI("opt_int1", nullopt),
       OptAssignI("opt_int2", nullopt),
       OptAssignI("opt_int3", Some(10)),
       Cout("opt_str_inplace: \"AAAAA\""),
       Cout("2. Checking for values:"),
       CoutHasValue("opt_int1 has value? ", "opt_int1") >>
    \o If(TestI("no_value", "opt_int2"),
          << Cout("opt_int2 is empty (checked via operator bool).") >>)
    \o If(TestI("has_value", "opt_int3"),
          << Cout("opt_int3 has a value.") >>)
    \o << Cout("3. Accessing values:") >>
    \o If(TestI("has_value", "opt_int3"),
          << CoutOpt("Value in opt_int3 (operator*): ", "opt_int3"),
             OptValueI("opt_int3"),
             CoutOpt("Value in opt_int3 (value()): ", "opt_int3") >>)
    \o Try(<< Cout("Trying to access opt_int1.value(): "),
              OptValueI("opt_int1"),
              CoutOpt("", "opt_int1") >>,
           "bad_optional_access",
           << CoutWhat("Caught exception: ") >>)
    \o << Cout("4. Using value_or:"),
          CoutValueOr("opt_int1.value_or(99): ", "opt_int1", 99),
          CoutValueOr("opt_int3.value_or(99): ", "opt_int3", 99),
          Cout("5. Optional return values:"),
          Cout("6. Optional parameters:"),
          Cout("7. Modifying values:") >>
    \o If(TestI("has_value", "opt_int3"),
          << OptAssignI("opt_int3", Some(20)),
             OptValueI("opt_int3"),
             CoutOpt("Modified opt_int3: ", "opt_int3") >>)
    \o << OptAssignI("opt_int3", Some(30)),
          CoutOpt("Emplaced new value in opt_int3: ", "opt_int3"),
          Cout("8. Resetting optionals:"),
          OptAssignI("opt_int3", nullopt),
          CoutHasValue("opt_int3 has value after assigning nullopt? ", "opt_int3"),
          Cout("9. Optional as class member:"),
          Cout("User: Charlie, Age: 30, Email: [not provided]"),
          ReturnI({}) >>

(***************************************************************************)
(* smart_pointers.cpp.  A smart pointer holds an allocation or nullptr; an *)
(* allocation made by new MyResource[2] holds two MyResource objects, any  *)
(* other holds one.  The declaration of u_arr (line 115) instantiates      *)
(* make_unique_cpp11 with an array type, which does not compile, and is    *)
(* left out.  The lines MyResource's constructor and destructor write are  *)
(* counted per object in obj, not kept on out.                             *)
(***************************************************************************)
UniquePointers == {"u1", "u2", "u_ptr", "u3", "u_arr_cpp11"}
SharedPointers == {"s1", "s2", "s_ptr", "temporary", "shared_vec[0]",
                   "shared_vec[1]", "shared_vec[2]", "sp_owner", "temp_sp"}
WeakPointers == {"wp_observer"}
Pointers == UniquePointers \cup SharedPointers \cup WeakPointers

Allocations == {"Unique One", "Unique Three from func", "MyResource[2]",
                "Shared Ten", "VecShared Twenty", "VecShared TwentyOne",
                "Weak Test Owner"}
UniqueAllocations == {"Unique One", "Unique Three from func", "MyResource[2]"}
SharedAllocations == Allocations \ UniqueAllocations
\* MyResource(4, "Arr C++11 One"), MyResource(5, "Arr C++11 Two")
Temporaries == {"Arr C++11 One", "Arr C++11 Two"}

Elements(a) ==
    IF a = "MyResource[2]" THEN {"ArrElem1", "ArrElem2"} ELSE {a}
Resources == UNION {Elements(a) : a \in Allocations} \cup Temporaries

\* dst = make_unique_cpp11<MyResource>(...), new MyResource[2]{...}, std::make_shared
MakeI(dst, a) == [op |-> "make", p |-> dst, a |-> a]
\* dst = std::move(src), also into a parameter or a vector element
MoveI(dst, src) == [op |-> "move", p |-> dst, src |-> src]
\* dst = src, also into a parameter, a vector element or a weak_ptr
CopyI(dst, src) == [op |-> "copy", p |-> dst, src |-> src]
\* p.reset(), or p goes out of scope
ResetI(p) == [op |-> "reset", p |-> p, scope_exit |-> FALSE]
ScopeExitI(p) == [op |-> "reset", p |-> p, scope_exit |-> TRUE]
\* dst = w.lock()
WeakLockI(dst, w) == [op |-> "weak_lock", p |-> dst, w |-> w]
\* u_arr_cpp11[i] = MyResource(...): a temporary, constructed and destroyed
TemporaryI(r) == [op |-> "temporary", r |-> r]
\* a line that ends with p.use_count(), written at the given source line
CoutUseCount(msg, p, line) ==
    [op |-> "cout", msg |-> msg, val |-> "use_count", p |-> p, line |-> line]

show == << Cout("MyResource is here.") >>

\* process_unique(std::move(src))
process_unique(src) ==
    << MoveI("u_ptr", src) >>
    \o IfElse(TestI("non_null", "u_ptr"),
          << Cout("process_unique owns: ") >> \o show,
          << Cout("process_unique received a null unique_ptr.") >>)
    \o << ScopeExitI("u_ptr") >>

\* process_shared(src)
process_shared(src) ==
    << CopyI("s_ptr", src) >>
    \o IfElse(TestI("non_null", "s_ptr"),
          << Cout("process_shared shares: ") >> \o show
          \o << CoutUseCount("  (use count in process_shared: ", "s_ptr", 42) >>,
          << Cout("process_shared received a null shared_ptr.") >>)
    \o << ScopeExitI("s_ptr") >>

\* shared_vec.push_back(std::make_shared<MyResource>(...)) into element i
push_back_make_shared(i, a) ==
    << MakeI("temporary", a), MoveI(i, "temporary"), ScopeExitI("temporary") >>

\* for (const auto& ptr : shared_vec)
show_element(i) ==
    If(TestI("non_null", i), show)
    \o << CoutUseCount("  (use count: ", i, 176) >>

main_smart_pointers ==
    << Cout("--- std::unique_ptr ---"),
       MakeI("u1", "Unique One") >>
    \o If(TestI("non_null", "u1"), show)
    \o << MoveI("u2", "u1"),
          Cout("After move: ") >>
    \o If(TestI("null", "u1"), << Cout("u1 is now null.") >>)
    \o If(TestI("non_null", "u2"), << Cout("u2 now owns: ") >> \o show)
    \o << Cout("Processing u2...") >>
    \o process_unique("u2")
    \o If(TestI("null", "u2"), << Cout("u2 is null after process_unique.") >>)
    \o << MakeI("u3", "Unique Three from func") >>
    \o If(TestI("non_null", "u3"), show)
    \o << MakeI("u_arr_cpp11", "MyResource[2]"),
          TemporaryI("Arr C++11 One"),
          TemporaryI("Arr C++11 Two") >>
    \o If(TestI("non_null", "u_arr_cpp11"), show \o show)
    \o << Cout("--- std::shared_ptr ---"),
          MakeI("s1", "Shared Ten"),
          CoutUseCount("s1 use count: ", "s1", 137) >>
    \o If(TestI("non_null", "s1"), show)
    \o << CopyI("s2", "s1"),
          CoutUseCount("s1 use count after s2 = s1: ", "s1", 145),
          CoutUseCount("s2 use count: ", "s2", 146) >>
    \o show
    \o process_shared("s1")
    \o << CoutUseCount("s1 use count after process_shared: ", "s1", 153),
          Cout("Resetting s2..."),
          ResetI("s2") >>
    \o If(TestI("null", "s2"), << Cout("s2 is now null.") >>)
    \o << CoutUseCount("s1 use count after s2.reset(): ", "s1", 161) >>
    \o push_back_make_shared("shared_vec[0]", "VecShared Twenty")
    \o << CopyI("shared_vec[1]", "s1") >>
    \o push_back_make_shared("shared_vec[2]", "VecShared TwentyOne")
    \o << CoutUseCount("s1 use count after being added to vector: ", "s1", 171),
          Cout("Contents of shared_vec:") >>
    \o show_element("shared_vec[0]")
    \o show_element("shared_vec[1]")
    \o show_element("shared_vec[2]")
    \o << Cout("--- std::weak_ptr (brief mention) ---"),
          MakeI("sp_owner", "Weak Test Owner"),
          CopyI("wp_observer", "sp_owner"),
          CoutUseCount("sp_owner use count: ", "sp_owner", 188),
          WeakLockI("temp_sp", "wp_observer") >>
    \o IfElse(TestI("non_null", "temp_sp"),
          << Cout("Successfully locked weak_ptr: ") >> \o show
          \o << CoutUseCount("  (use count via locked ptr: ", "temp_sp", 194) >>,
          << Cout("Failed to lock weak_ptr (resource might be gone).") >>)
    \o << ScopeExitI("temp_sp"),
          CoutUseCount("sp_owner use count after lock attempt: ", "sp_owner", 198),
          ResetI("sp_owner"),
          Cout("sp_owner reset."),
          WeakLockI("temp_sp", "wp_observer") >>
    \o IfElse(TestI("non_null", "temp_sp"),
          << Cout("Should not happen: Locked weak_ptr after owner reset.") >>,
          << Cout("Correctly failed to lock weak_ptr: resource is gone.") >>)
    \o << ScopeExitI("temp_sp") >>
    \o If(TestI("expired", "wp_observer"), << Cout("wp_observer has expired.") >>)
    \o << Cout("End of main. Resources will be automatically cleaned up by smart pointers."),
          \* the locals of main go out of scope, last declared first
          ScopeExitI("wp_observer"),
          ScopeExitI("sp_owner"),
          ScopeExitI("shared_vec[0]"),
          ScopeExitI("shared_vec[1]"),
          ScopeExitI("shared_vec[2]"),
          ScopeExitI("s2"),
          ScopeExitI("s1"),
          ScopeExitI("u_arr_cpp11"),
          ScopeExitI("u3"),
          ScopeExitI("u2"),
          ScopeExitI("u1"),
          ReturnI({}) >>

(***************************************************************************)
(* Threads and their code.                                                 *)
(***************************************************************************)
ObjectsOf(p) ==
    CASE p = "std_thread" -> StdThreadObjects
      [] p = "std_latch" -> StdLatchObjects
      [] p = "std_shared_timed_mutex" -> StdMutexObjects
      [] OTHER -> {}

Threads(p) == ObjectsOf(p) \cup {Main}

MainCode(p) ==
    CASE p = "std_thread" -> main_std_thread
      [] p = "std_latch" -> main_std_latch
      [] p = "std_shared_timed_mutex" -> main_std_shared_timed_mutex

CallableCode(p, t) ==
    CASE p = "std_thread" -> StdThreadCode(t)
      [] p = "std_latch" -> StdLatchCode(t)
      [] p = "std_shared_timed_mutex" -> StdMutexCode(t)

\* The code of every thread of program p, as a table from thread to instructions.
RECURSIVE TableOf(_, _)
TableOf(p, ts) ==
    IF ts = {} THEN Main :> (<< >> \o MainCode(p))
    ELSE LET t == CHOOSE x \in ts : TRUE
         IN (t :> (<< >> \o CallableCode(p, t))) @@ TableOf(p, ts \ {t})

StdThreadTable == TableOf("std_thread", StdThreadObjects)
StdLatchTable == TableOf("std_latch", StdLatchObjects)
StdMutexTable == TableOf("std_shared_timed_mutex", StdMutexObjects)
\* The sequential programs have one thread, main.
StdFilesystemTable == Main :> (<< >> \o main_std_filesystem)
StdRegexTable == Main :> (<< >> \o main_std_regex)
StdOptionalTable == Main :> (<< >> \o main_std_optional)
SmartPointersTable == Main :> (<< >> \o main_smart_pointers)

Code(t) ==
    CASE prog = "std_thread" -> StdThreadTable[t]
      [] prog = "std_latch" -> StdLatchTable[t]
      [] prog = "std_shared_timed_mutex" -> StdMutexTable[t]
      [] prog = "std_filesystem" -> StdFilesystemTable[t]
      [] prog = "std_regex" -> StdRegexTable[t]
      [] prog = "std_optional" -> StdOptionalTable[t]
      [] prog = "smart_pointers" -> SmartPointersTable[t]

Running(t) == pc[t] >= 1 /\ pc[t] <= Len(Code(t))
Finished(t) == pc[t] > Len(Code(t))
Instr(t) == Code(t)[pc[t]]
At(t, o) == Running(t) /\ Instr(t).op = o /\ ~terminated
Advance(t) == [pc EXCEPT ![t] = @ + 1]

(***************************************************************************)
(* The initial state: a program is chosen and its main is about to start.  *)
(* std_filesystem.cpp starts in any of the working directories above.      *)
(***************************************************************************)
Start(P) ==
    /\ prog \in P
    /\ pc = [t \in Threads(prog) |-> IF t = Main THEN 1 ELSE 0]
    /\ tobj = [t \in ObjectsOf(prog) |-> "none"]
    /\ joins = [t \in ObjectsOf(prog) |-> 0]
    /\ terminated = FALSE
    /\ out = << >>
    /\ sum_result = 0
    /\ latch = [l \in Latches |-> 0]
    /\ constructed = {}
    /\ waiting = [l \in Latches |-> {}]
    /\ fastPath = {}
    /\ mtx = [m \in Mutexes |-> [excl |-> {}, shared |-> {}]]
    /\ value = 0
    /\ log = << >>
    /\ err = << >>
    /\ IF prog = "std_filesystem"
       THEN fs \in InitialFilesystems /\ perm \in Permissions
       ELSE fs = BareDirectory /\ perm = {"r", "w"}
    /\ num_deleted = 0
    /\ raised = << >>
    /\ opt = [o \in Optionals |-> nullopt]
    /\ ptr = [p \in Pointers |-> "nullptr"]
    /\ use_count = [a \in Allocations |-> 0]
    /\ obj = [r \in Resources |-> [ctor |-> 0, dtor |-> 0]]

Init == Start(Programs)

threadVars == <<tobj, joins, terminated>>
latchVars == <<latch, constructed, waiting, fastPath>>
mutexVars == <<mtx, value, log>>
fsVars == <<err, fs, perm, num_deleted>>
ptrVars == <<ptr, use_count, obj>>
seqVars == <<fsVars, raised, opt, ptrVars>>

(***************************************************************************)
(* Standard output.  The ordered stream is kept for std_thread.cpp and the *)
(* sequential programs; in std_latch.cpp and std_shared_timed_mutex.cpp a  *)
(* line is identified by the instruction that writes it and the step only  *)
(* moves the thread past it.                                               *)
(***************************************************************************)
\* The exception a handler is handling, and what a line ends with.
e == raised[Len(raised)]

UseCount(p) == IF ptr[p] = "nullptr" THEN 0 ELSE use_count[ptr[p]]

Boolalpha(b) == IF b THEN "true" ELSE "false"

Value(ins) ==
    CASE ins.val = "sum_result" -> ToString(sum_result)
      [] ins.val = "num_deleted" -> ToString(num_deleted)
      [] ins.val = "e.what()" -> e.what
      [] ins.val = "e.code()" -> e.code
      [] ins.val = "is" -> Boolalpha(fs[ins.p].kind = ins.kind)
      [] ins.val = "*" -> ToString(opt[ins.p].v)
      [] ins.val = "has_value" -> Boolalpha(opt[ins.p].has)
      [] ins.val = "value_or" ->
            ToString(IF opt[ins.p].has THEN opt[ins.p].v ELSE ins.d)
      [] ins.val = "use_count" -> ToString(UseCount(ins.p))

Line(ins) == IF "val" \in DOMAIN ins THEN ins.msg \o Value(ins) ELSE ins.msg

DoCout(t) ==
    /\ At(t, "cout")
    /\ out' = IF prog \in OrderedOutput THEN Append(out, Line(Instr(t))) ELSE out
    /\ pc' = Advance(t)
    /\ UNCHANGED <<prog, seqVars, threadVars, sum_result, latchVars, mutexVars>>

(***************************************************************************)
(* std::thread: construction starts the callable; join() blocks until the  *)
(* callable has returned; destroying a joinable thread calls terminate.    *)
(***************************************************************************)
Spawn(t) ==
    /\ At(t, "spawn")
    /\ LET u == Instr(t).t IN
        /\ tobj' = [tobj EXCEPT ![u] = "joinable"]
        /\ pc' = [pc EXCEPT ![t] = @ + 1, ![u] = 1]
    /\ UNCHANGED <<prog, seqVars, joins, terminated, out, sum_result, latchVars, mutexVars>>

\* Mutant: join() returns without waiting for the callable to return.
JoinReturns_NoWait(u) == TRUE
JoinReturns(u) == Finished(u)

\* t.join(): on a thread that is not joinable it throws std::system_error, which
\* nothing catches.
Join(t) ==
    /\ At(t, "join")
    /\ LET u == Instr(t).t IN
        IF tobj[u] = "joinable"
        THEN /\ JoinReturns(u)
             /\ tobj' = [tobj EXCEPT ![u] = "joined"]
             /\ joins' = [joins EXCEPT ![u] = @ + 1]
             /\ pc' = Advance(t)
             /\ UNCHANGED terminated
        ELSE /\ terminated' = TRUE
             /\ UNCHANGED <<tobj, joins, pc>>
    /\ UNCHANGED <<prog, seqVars, out, sum_result, latchVars, mutexVars>>

\* if (t.joinable()) t.join();
JoinIfJoinable(t) ==
    /\ At(t, "join_if_joinable")
    /\ LET u == Instr(t).t IN
        IF tobj[u] = "joinable"
        THEN /\ JoinReturns(u)
             /\ tobj' = [tobj EXCEPT ![u] = "joined"]
             /\ joins' = [joins EXCEPT ![u] = @ + 1]
        ELSE UNCHANGED <<tobj, joins>>
    /\ pc' = Advance(t)
    /\ UNCHANGED <<prog, seqVars, terminated, out, sum_result, latchVars, mutexVars>>

\* ~thread(): std::terminate() when the thread is joinable.
Destroy(ts) ==
    /\ terminated' = (\E u \in ts : tobj[u] = "joinable")
    /\ tobj' = [u \in DOMAIN tobj |->
                 IF u \in ts /\ tobj[u] # "none" THEN "destroyed" ELSE tobj[u]]

\* worker_threads.clear()
Clear(t) ==
    /\ At(t, "clear")
    /\ Destroy(Instr(t).ts)
    /\ pc' = Advance(t)
    /\ UNCHANGED <<prog, seqVars, joins, out, sum_result, latchVars, mutexVars>>

\* return 0; the std::thread objects of main go out of scope.
Return(t) ==
    /\ At(t, "return")
    /\ Destroy(Instr(t).ts)
    /\ pc' = Advance(t)
    /\ UNCHANGED <<prog, seqVars, joins, out, sum_result, latchVars, mutexVars>>

SumVector(t) ==
    /\ At(t, "sum")
    /\ sum_result' = sum_of_data
    /\ pc' = Advance(t)
    /\ UNCHANGED <<prog, seqVars, threadVars, out, latchVars, mutexVars>>

(***************************************************************************)
(* std::latch: count_down decrements and, at zero, unblocks every waiting  *)
(* thread; wait returns at once when the counter is zero and blocks        *)
(* otherwise; arrive_and_wait is count_down followed by wait.              *)
(***************************************************************************)
LatchConstruct(t) ==
    /\ At(t, "latch")
    /\ latch' = [latch EXCEPT ![Instr(t).l] = Instr(t).n]
    /\ constructed' = constructed \cup {Instr(t).l}
    /\ pc' = Advance(t)
    /\ UNCHANGED <<prog, seqVars, threadVars, out, sum_result, waiting, fastPath, mutexVars>>

\* Mutant: reaching zero unblocks one waiting thread, not all of them.
Woken_One(l, c) ==
    IF c = 0 /\ waiting[l] # {} THEN {CHOOSE t \in waiting[l] : TRUE} ELSE {}
\* The threads a decrement of latch l to the value c unblocks.
Woken(l, c) == IF c = 0 THEN waiting[l] ELSE {}

\* Mutant: wait() returns without looking at the counter.
WaitReturnsImmediately_Always(c) == TRUE
\* Mutant: wait() blocks without looking at the counter, and relies on a later
\* count_down to be unblocked.
WaitReturnsImmediately_Never(c) == FALSE
\* Whether wait() finds the counter, of value c, at zero.
WaitReturnsImmediately(c) == c = 0

CountDown(t) ==
    /\ At(t, "count_down")
    /\ LET l == Instr(t).l
           c == latch[l] - 1
           w == Woken(l, c)
       IN /\ latch' = [latch EXCEPT ![l] = c]
          /\ waiting' = [waiting EXCEPT ![l] = @ \ w]
          /\ pc' = [u \in DOMAIN pc |-> IF u = t \/ u \in w THEN pc[u] + 1 ELSE pc[u]]
    /\ UNCHANGED <<prog, seqVars, threadVars, out, sum_result, constructed, fastPath, mutexVars>>

Wait(t) ==
    /\ At(t, "wait")
    /\ LET l == Instr(t).l IN
        /\ t \notin waiting[l]
        /\ IF WaitReturnsImmediately(latch[l])
           THEN /\ pc' = Advance(t)
                /\ fastPath' = fastPath \cup {t}
                /\ UNCHANGED waiting
           ELSE /\ waiting' = [waiting EXCEPT ![l] = @ \cup {t}]
                /\ fastPath' = fastPath \ {t}
                /\ UNCHANGED pc
    /\ UNCHANGED <<prog, seqVars, threadVars, out, sum_result, latch, constructed, mutexVars>>

ArriveAndWait(t) ==
    /\ At(t, "arrive_and_wait")
    /\ LET l == Instr(t).l
           c == latch[l] - 1
           w == Woken(l, c)
       IN /\ t \notin waiting[l]
          /\ latch' = [latch EXCEPT ![l] = c]
          /\ IF WaitReturnsImmediately(c)
             THEN /\ waiting' = [waiting EXCEPT ![l] = @ \ w]
                  /\ pc' = [u \in DOMAIN pc |->
                             IF u = t \/ u \in w THEN pc[u] + 1 ELSE pc[u]]
                  /\ fastPath' = fastPath \cup {t}
             ELSE /\ waiting' = [waiting EXCEPT ![l] = (@ \ w) \cup {t}]
                  /\ pc' = [u \in DOMAIN pc |-> IF u \in w THEN pc[u] + 1 ELSE pc[u]]
                  /\ fastPath' = fastPath \ {t}
    /\ UNCHANGED <<prog, seqVars, threadVars, out, sum_result, constructed, mutexVars>>

(***************************************************************************)
(* std::shared_timed_mutex: one exclusive owner or any number of shared    *)
(* owners.  lock and lock_shared block until ownership can be taken.       *)
(***************************************************************************)
\* Mutant: exclusive ownership is taken without regard to the shared owners.
CanLock_IgnoresReaders(m) == mtx[m].excl = {}
CanLock(m) == mtx[m].excl = {} /\ mtx[m].shared = {}
\* Mutant: shared ownership is refused while any thread owns the mutex.
CanLockShared_Exclusive(m) == mtx[m].excl = {} /\ mtx[m].shared = {}
CanLockShared(m) == mtx[m].excl = {}

TakeExclusive(t, m) == mtx' = [mtx EXCEPT ![m].excl = @ \cup {t}]
TakeShared(t, m) == mtx' = [mtx EXCEPT ![m].shared = @ \cup {t}]

\* std::unique_lock<std::shared_timed_mutex> lock(m);
Lock(t) ==
    /\ At(t, "lock")
    /\ CanLock(Instr(t).m)
    /\ TakeExclusive(t, Instr(t).m)
    /\ pc' = Advance(t)
    /\ UNCHANGED <<prog, seqVars, threadVars, out, sum_result, latchVars, value, log>>

\* unlock(), or the unique_lock going out of scope
Unlock(t) ==
    /\ At(t, "unlock")
    /\ mtx' = [mtx EXCEPT ![Instr(t).m].excl = @ \ {t}]
    /\ pc' = Advance(t)
    /\ UNCHANGED <<prog, seqVars, threadVars, out, sum_result, latchVars, value, log>>

\* std::shared_lock<std::shared_timed_mutex> lock(m);
LockShared(t) ==
    /\ At(t, "lock_shared")
    /\ CanLockShared(Instr(t).m)
    /\ TakeShared(t, Instr(t).m)
    /\ pc' = Advance(t)
    /\ UNCHANGED <<prog, seqVars, threadVars, out, sum_result, latchVars, value, log>>

\* unlock_shared(), or the shared_lock going out of scope
UnlockShared(t) ==
    /\ At(t, "unlock_shared")
    /\ mtx' = [mtx EXCEPT ![Instr(t).m].shared = @ \ {t}]
    /\ pc' = Advance(t)
    /\ UNCHANGED <<prog, seqVars, threadVars, out, sum_result, latchVars, value, log>>

\* data.value++; data.add_log(entry); std::cout << entry
Write(t) ==
    /\ At(t, "write")
    /\ value' = value + 1
    /\ log' = Append(log, "Writer " \o ToString(Instr(t).id) \o " wrote value: "
                           \o ToString(value + 1))
    /\ pc' = Advance(t)
    /\ UNCHANGED <<prog, seqVars, threadVars, out, sum_result, latchVars, mtx>>

\* std::cout << "Reader ... read value: " << data.value << " (Log entries: ...)";
\* the shared_lock then goes out of scope.
Read(t) ==
    /\ At(t, "read")
    /\ mtx' = [mtx EXCEPT ![Instr(t).m].shared = @ \ {t}]
    /\ pc' = Advance(t)
    /\ UNCHANGED <<prog, seqVars, threadVars, out, sum_result, latchVars, value, log>>

Fail(t) == [pc EXCEPT ![t] = @ + 1 + Instr(t).else_skip]

\* std::unique_lock ex_lock(timed_mtx, std::try_to_lock); if (ex_lock.owns_lock())
TryToLock(t) ==
    /\ At(t, "try_to_lock")
    /\ IF CanLock(Instr(t).m)
       THEN TakeExclusive(t, Instr(t).m) /\ pc' = Advance(t)
       ELSE UNCHANGED mtx /\ pc' = Fail(t)
    /\ UNCHANGED <<prog, seqVars, threadVars, out, sum_result, latchVars, value, log>>

\* if (timed_mtx.try_lock_for(100ms)): the wait expires while the mutex is owned.
TryLockFor(t) ==
    /\ At(t, "try_lock_for")
    /\ IF CanLock(Instr(t).m)
       THEN TakeExclusive(t, Instr(t).m) /\ pc' = Advance(t)
       ELSE UNCHANGED mtx /\ pc' = Fail(t)
    /\ UNCHANGED <<prog, seqVars, threadVars, out, sum_result, latchVars, value, log>>

\* if (timed_mtx.try_lock_shared_for(100ms))
TryLockSharedFor(t) ==
    /\ At(t, "try_lock_shared_for")
    /\ IF CanLockShared(Instr(t).m)
       THEN TakeShared(t, Instr(t).m) /\ pc' = Advance(t)
       ELSE UNCHANGED mtx /\ pc' = Fail(t)
    /\ UNCHANGED <<prog, seqVars, threadVars, out, sum_result, latchVars, value, log>>

\* the end of a then-branch: control passes over the else-branch
Skip(t) ==
    /\ At(t, "skip")
    /\ pc' = [pc EXCEPT ![t] = @ + 1 + Instr(t).k]
    /\ UNCHANGED <<prog, seqVars, threadVars, out, sum_result, latchVars, mutexVars>>

(***************************************************************************)
(* Exceptions.  A throw inside a try block whose handler names the type    *)
(* passes control to the handler; any other throw leaves main, and         *)
(* std::terminate ends the program.                                        *)
(***************************************************************************)
concVars == <<tobj, joins, sum_result, latchVars, mutexVars>>

filesystem_error(what) == [type |-> "filesystem_error", what |-> what, code |-> ""]
regex_error(code) ==
    [type |-> "regex_error", what |-> "regex_error: " \o code, code |-> code]
bad_optional_access ==
    [type |-> "bad_optional_access", what |-> "bad optional access", code |-> ""]

Caught(ins, x) == "catch_skip" \in DOMAIN ins /\ ins.catch_type = x.type

Throw(t, x) ==
    /\ raised' = Append(raised, x)
    /\ IF Caught(Instr(t), x)
       THEN /\ pc' = [pc EXCEPT ![t] = @ + 1 + Instr(t).catch_skip]
            /\ UNCHANGED terminated
       ELSE /\ terminated' = TRUE
            /\ UNCHANGED pc

NoThrow == UNCHANGED <<raised, terminated>>

\* std::cerr << ... << std::endl
DoCerr(t) ==
    /\ At(t, "cerr")
    /\ err' = Append(err, Line(Instr(t)))
    /\ pc' = Advance(t)
    /\ UNCHANGED <<prog, concVars, terminated, out, fs, perm, num_deleted,
                   raised, opt, ptrVars>>

\* the condition of an if statement
Cond(ins) ==
    CASE ins.cond = "exists" -> Exists(fs, ins.p)
      [] ins.cond = "not_exists" -> ~Exists(fs, ins.p)
      [] ins.cond = "exists_and_is_directory" ->
            Exists(fs, ins.p) /\ IsDirectory(fs, ins.p)
      [] ins.cond = "code_is" -> e.code = ins.p
      [] ins.cond = "has_value" -> opt[ins.p].has
      [] ins.cond = "no_value" -> ~opt[ins.p].has
      [] ins.cond = "non_null" -> ptr[ins.p] # "nullptr"
      [] ins.cond = "null" -> ptr[ins.p] = "nullptr"
      [] ins.cond = "expired" -> UseCount(ins.p) = 0

Test(t) ==
    /\ At(t, "test")
    /\ pc' = IF Cond(Instr(t)) THEN Advance(t) ELSE Fail(t)
    /\ UNCHANGED <<prog, concVars, terminated, out, seqVars>>

(***************************************************************************)
(* std_filesystem.cpp: the calls of main.                                  *)
(***************************************************************************)
\* The call has outcome o; where it returns, control goes on, or to the
\* else-branch of the if statement that tests the result.
Complete(t, o, taken) ==
    /\ fs' = o.fs
    /\ IF o.threw
       THEN Throw(t, filesystem_error(o.what))
       ELSE /\ NoThrow
            /\ pc' = IF taken THEN Advance(t) ELSE Fail(t)

CreateDirectory(t) ==
    /\ At(t, "create_directory")
    /\ \E o \in create_directory(fs, perm, Instr(t).p) : Complete(t, o, o.value)
    /\ UNCHANGED <<prog, concVars, out, err, perm, num_deleted, opt, ptrVars>>

CreateDirectories(t) ==
    /\ At(t, "create_directories")
    /\ \E o \in create_directories(fs, perm, Instr(t).p) : Complete(t, o, o.value)
    /\ UNCHANGED <<prog, concVars, out, err, perm, num_deleted, opt, ptrVars>>

Ofstream(t) ==
    /\ At(t, "ofstream")
    /\ fs' = ofstream(fs, perm, Instr(t).p, Instr(t).data, Instr(t).size)
    /\ pc' = Advance(t)
    /\ NoThrow
    /\ UNCHANGED <<prog, concVars, out, err, perm, num_deleted, opt, ptrVars>>

Remove(t) ==
    /\ At(t, "remove")
    /\ \E o \in remove(fs, perm, Instr(t).p) : Complete(t, o, o.value)
    /\ UNCHANGED <<prog, concVars, out, err, perm, num_deleted, opt, ptrVars>>

RemoveAll(t) ==
    /\ At(t, "remove_all")
    /\ \E o \in remove_all(fs, perm, Instr(t).p) :
            /\ Complete(t, o, TRUE)
            /\ num_deleted' = IF o.threw THEN num_deleted ELSE o.value
    /\ UNCHANGED <<prog, concVars, out, err, perm, opt, ptrVars>>

\* The entries of a directory, sorted, and the line written for each; for
\* the regular files in bad, file_size throws and the handler of line 101
\* writes "(size error)".
Sorted(S) == SelectSeq(<< executable, testDir, tempFile >>, LAMBDA p : p \in S)

Filename(p) ==
    CASE p = executable -> "filesystem_example"
      [] p = testDir -> "my_test_dir"
      [] p = tempFile -> "temp_example_file.txt"

EntryLine(p, bad) ==
    "  " \o Filename(p)
    \o (IF IsDirectory(fs, p) THEN " [DIR]" ELSE "")
    \o (IF ~IsRegularFile(fs, p) THEN ""
        ELSE IF p \in bad THEN " (size error)"
        ELSE " (" \o ToString(fs[p].size) \o " bytes)")

DirectoryIterator(t) ==
    /\ At(t, "directory_iterator")
    /\ \E o \in directory_iterator(fs, perm, Instr(t).p) :
        IF o.threw
        THEN Throw(t, filesystem_error(o.what)) /\ UNCHANGED out
        ELSE \E bad \in SUBSET {p \in o.value : IsRegularFile(fs, p)} :
                /\ out' = out \o [i \in 1..Len(Sorted(o.value)) |->
                                    EntryLine(Sorted(o.value)[i], bad)]
                /\ raised' = raised \o
                        [i \in 1..Len(Sorted(bad)) |->
                            filesystem_error("filesystem error: cannot get file size: "
                                \o "No such file or directory [" \o Sorted(bad)[i] \o "]")]
                /\ pc' = Advance(t)
                /\ UNCHANGED terminated
    /\ UNCHANGED <<prog, concVars, err, fs, perm, num_deleted, opt, ptrVars>>

\* std::cout << msg << fs::file_size(p) << " bytes" << std::endl
FileSize(t) ==
    /\ At(t, "file_size")
    /\ \E o \in file_size(fs, perm, Instr(t).p) :
            /\ Complete(t, o, TRUE)
            /\ out' = Append(out, IF o.threw THEN Instr(t).msg
                                  ELSE Instr(t).msg \o ToString(o.value) \o " bytes")
    /\ UNCHANGED <<prog, concVars, err, perm, num_deleted, opt, ptrVars>>

LastWriteTime(t) ==
    /\ At(t, "last_write_time")
    /\ \E o \in last_write_time(fs, perm, Instr(t).p) : Complete(t, o, TRUE)
    /\ UNCHANGED <<prog, concVars, out, err, perm, num_deleted, opt, ptrVars>>

(***************************************************************************)
(* std_regex.cpp and std_optional.cpp.                                     *)
(***************************************************************************)
\* std::regex r(pattern)
Regex(t) ==
    /\ At(t, "regex")
    /\ LET code == regex_error_code(Instr(t).pattern, 1, FALSE, 0)
       IN IF code # "none"
          THEN Throw(t, regex_error(code))
          ELSE NoThrow /\ pc' = Advance(t)
    /\ UNCHANGED <<prog, concVars, out, fsVars, opt, ptrVars>>

OptAssign(t) ==
    /\ At(t, "opt_assign")
    /\ opt' = [opt EXCEPT ![Instr(t).p] = Instr(t).x]
    /\ pc' = Advance(t)
    /\ UNCHANGED <<prog, concVars, terminated, out, fsVars, raised, ptrVars>>

\* o.value() throws bad_optional_access when o holds no value
OptValue(t) ==
    /\ At(t, "opt_value")
    /\ IF opt[Instr(t).p].has
       THEN NoThrow /\ pc' = Advance(t)
       ELSE Throw(t, bad_optional_access)
    /\ UNCHANGED <<prog, concVars, out, fsVars, opt, ptrVars>>

(***************************************************************************)
(* smart_pointers.cpp: unique_ptr, shared_ptr and weak_ptr operations.     *)
(***************************************************************************)
\* the destructors of the MyResource objects of allocation a run
Delete(a) ==
    [r \in Resources |->
        IF r \in Elements(a) THEN [obj[r] EXCEPT !.dtor = @ + 1] ELSE obj[r]]

\* make_unique_cpp11, new MyResource[2]{...} and std::make_shared: the
\* constructors run and dst is the only owner
Make(t) ==
    /\ At(t, "make")
    /\ LET dst == Instr(t).p
           a == Instr(t).a
       IN /\ obj' = [r \in Resources |->
                        IF r \in Elements(a) THEN [obj[r] EXCEPT !.ctor = @ + 1]
                        ELSE obj[r]]
          /\ ptr' = [ptr EXCEPT ![dst] = a]
          /\ use_count' = IF dst \in SharedPointers
                          THEN [use_count EXCEPT ![a] = 1]
                          ELSE use_count
    /\ pc' = Advance(t)
    /\ UNCHANGED <<prog, concVars, terminated, out, fsVars, raised, opt>>

\* what a smart pointer holds after it has been moved from
MovedFrom_Unchanged(src) == ptr[src]

MovedFrom(src) == "nullptr"

\* the move constructor: dst takes what src holds
MovePtr(t) ==
    /\ At(t, "move")
    /\ ptr' = [ptr EXCEPT ![Instr(t).p] = ptr[Instr(t).src],
                          ![Instr(t).src] = MovedFrom(Instr(t).src)]
    /\ pc' = Advance(t)
    /\ UNCHANGED <<prog, concVars, terminated, out, fsVars, raised, opt,
                   use_count, obj>>

\* the count of allocation a after a copy into dst
CopyCount_Forgotten(dst, a) == use_count[a]

CopyCount(dst, a) ==
    IF dst \in SharedPointers THEN use_count[a] + 1 ELSE use_count[a]

\* the copy constructor of shared_ptr, and weak_ptr from shared_ptr
CopyPtr(t) ==
    /\ At(t, "copy")
    /\ LET dst == Instr(t).p
           a == ptr[Instr(t).src]
       IN /\ ptr' = [ptr EXCEPT ![dst] = a]
          /\ use_count' = IF a = "nullptr" THEN use_count
                          ELSE [use_count EXCEPT ![a] = CopyCount(dst, a)]
    /\ pc' = Advance(t)
    /\ UNCHANGED <<prog, concVars, terminated, out, fsVars, raised, opt, obj>>

\* reset() and the destructor: a unique_ptr deletes what it holds, a
\* shared_ptr gives up its share and deletes when it was the last owner
Reset(t) ==
    /\ At(t, "reset")
    /\ LET p == Instr(t).p
           a == ptr[p]
       IN /\ ptr' = [ptr EXCEPT ![p] = "nullptr"]
          /\ IF a = "nullptr" \/ p \in WeakPointers
             THEN UNCHANGED <<use_count, obj>>
             ELSE IF p \in UniquePointers
             THEN obj' = Delete(a) /\ UNCHANGED use_count
             ELSE /\ use_count' = [use_count EXCEPT ![a] = @ - 1]
                  /\ obj' = IF use_count[a] = 1 THEN Delete(a) ELSE obj
    /\ pc' = Advance(t)
    /\ UNCHANGED <<prog, concVars, terminated, out, fsVars, raised, opt>>

\* w.lock(): a shared_ptr to the object, or an empty one when it is gone
WeakLock(t) ==
    /\ At(t, "weak_lock")
    /\ LET dst == Instr(t).p
           a == ptr[Instr(t).w]
       IN IF a # "nullptr" /\ use_count[a] > 0
          THEN /\ ptr' = [ptr EXCEPT ![dst] = a]
               /\ use_count' = [use_count EXCEPT ![a] = @ + 1]
          ELSE /\ ptr' = [ptr EXCEPT ![dst] = "nullptr"]
               /\ UNCHANGED use_count
    /\ pc' = Advance(t)
    /\ UNCHANGED <<prog, concVars, terminated, out, fsVars, raised, opt, obj>>

\* u_arr_cpp11[i] = MyResource(...): the temporary is constructed, assigned
\* from and destroyed at the end of the statement
Temporary(t) ==
    /\ At(t, "temporary")
    /\ obj' = [obj EXCEPT ![Instr(t).r] = [ctor |-> @.ctor + 1, dtor |-> @.dtor + 1]]
    /\ pc' = Advance(t)
    /\ UNCHANGED <<prog, concVars, terminated, out, fsVars, raised, opt,
                   ptr, use_count>>

\* Some thread takes a step of the given kind.
DoCoutStep == \E t \in DOMAIN pc : DoCout(t)
SpawnStep == \E t \in DOMAIN pc : Spawn(t)
JoinStep == \E t \in DOMAIN pc : Join(t)
SumVectorStep == \E t \in DOMAIN pc : SumVector(t)
ReturnStep == \E t \in DOMAIN pc : Return(t)
LatchConstructStep == \E t \in DOMAIN pc : LatchConstruct(t)
CountDownStep == \E t \in DOMAIN pc : CountDown(t)
WaitStep == \E t \in DOMAIN pc : Wait(t)
ArriveAndWaitStep == \E t \in DOMAIN pc : ArriveAndWait(t)
JoinIfJoinableStep == \E t \in DOMAIN pc : JoinIfJoinable(t)
ClearStep == \E t \in DOMAIN pc : Clear(t)
LockStep == \E t \in DOMAIN pc : Lock(t)
WriteStep == \E t \in DOMAIN pc : Write(t)
UnlockStep == \E t \in DOMAIN pc : Unlock(t)
LockSharedStep == \E t \in DOMAIN pc : LockShared(t)
ReadStep == \E t \in DOMAIN pc : Read(t)
UnlockSharedStep == \E t \in DOMAIN pc : UnlockShared(t)
TryToLockStep == \E t \in DOMAIN pc : TryToLock(t)
TryLockForStep == \E t \in DOMAIN pc : TryLockFor(t)
TryLockSharedForStep == \E t \in DOMAIN pc : TryLockSharedFor(t)
SkipStep == \E t \in DOMAIN pc : Skip(t)
\* The steps of the sequential programs.
DoCerrStep == prog \in SeqPrograms /\ \E t \in DOMAIN pc : DoCerr(t)
TestStep == prog \in SeqPrograms /\ \E t \in DOMAIN pc : Test(t)
CreateDirectoryStep == prog \in SeqPrograms /\ \E t \in DOMAIN pc : CreateDirectory(t)
CreateDirectoriesStep == prog \in SeqPrograms /\ \E t \in DOMAIN pc : CreateDirectories(t)
OfstreamStep == prog \in SeqPrograms /\ \E t \in DOMAIN pc : Ofstream(t)
RemoveStep == prog \in SeqPrograms /\ \E t \in DOMAIN pc : Remove(t)
RemoveAllStep == prog \in SeqPrograms /\ \E t \in DOMAIN pc : RemoveAll(t)
DirectoryIteratorStep == prog \in SeqPrograms /\ \E t \in DOMAIN pc : DirectoryIterator(t)
FileSizeStep == prog \in SeqPrograms /\ \E t \in DOMAIN pc : FileSize(t)
LastWriteTimeStep == prog \in SeqPrograms /\ \E t \in DOMAIN pc : LastWriteTime(t)
RegexStep == prog \in SeqPrograms /\ \E t \in DOMAIN pc : Regex(t)
OptAssignStep == prog \in SeqPrograms /\ \E t \in DOMAIN pc : OptAssign(t)
OptValueStep == prog \in SeqPrograms /\ \E t \in DOMAIN pc : OptValue(t)
MakeStep == prog \in SeqPrograms /\ \E t \in DOMAIN pc : Make(t)
MovePtrStep == prog \in SeqPrograms /\ \E t \in DOMAIN pc : MovePtr(t)
CopyPtrStep == prog \in SeqPrograms /\ \E t \in DOMAIN pc : CopyPtr(t)
ResetStep == prog \in SeqPrograms /\ \E t \in DOMAIN pc : Reset(t)
WeakLockStep == prog \in SeqPrograms /\ \E t \in DOMAIN pc : WeakLock(t)
TemporaryStep == prog \in SeqPrograms /\ \E t \in DOMAIN pc : Temporary(t)


NextThread ==
    \/ DoCoutStep
    \/ SpawnStep
    \/ JoinStep
    \/ SumVectorStep
    \/ ReturnStep

NextLatch ==
    \/ DoCoutStep
    \/ LatchConstructStep
    \/ SpawnStep
    \/ CountDownStep
    \/ WaitStep
    \/ ArriveAndWaitStep
    \/ JoinIfJoinableStep
    \/ ClearStep
    \/ ReturnStep

NextMutex ==
    \/ DoCoutStep
    \/ SpawnStep
    \/ LockStep
    \/ WriteStep
    \/ UnlockStep
    \/ LockSharedStep
    \/ ReadStep
    \/ UnlockSharedStep
    \/ TryToLockStep
    \/ TryLockForStep
    \/ TryLockSharedForStep
    \/ SkipStep
    \/ JoinIfJoinableStep
    \/ ReturnStep

Next ==
    \/ DoCoutStep
    \/ SpawnStep
    \/ JoinStep
    \/ SumVectorStep
    \/ ReturnStep
    \/ LatchConstructStep
    \/ CountDownStep
    \/ WaitStep
    \/ ArriveAndWaitStep
    \/ JoinIfJoinableStep
    \/ ClearStep
    \/ LockStep
    \/ WriteStep
    \/ UnlockStep
    \/ LockSharedStep
    \/ ReadStep
    \/ UnlockSharedStep
    \/ TryToLockStep
    \/ TryLockForStep
    \/ TryLockSharedForStep
    \/ SkipStep

InitThread == Init /\ prog = "std_thread"
InitLatch == Init /\ prog = "std_latch"
InitMutex == Init /\ prog = "std_shared_timed_mutex"

\* The three programs, any one of them running.
Spec == Init /\ [][Next]_vars

\* One program at a time.
SpecThread == InitThread /\ [][NextThread]_vars
SpecLatch == InitLatch /\ [][NextLatch]_vars
SpecMutex == InitMutex /\ [][NextMutex]_vars

NextFilesystem ==
    \/ DoCoutStep
    \/ DoCerrStep
    \/ TestStep
    \/ SkipStep
    \/ CreateDirectoryStep
    \/ CreateDirectoriesStep
    \/ OfstreamStep
    \/ RemoveStep
    \/ RemoveAllStep
    \/ DirectoryIteratorStep
    \/ FileSizeStep
    \/ LastWriteTimeStep
    \/ ReturnStep

\* the demonstrations that throw: std_filesystem, std_regex, std_optional
NextExceptions ==
    \/ NextFilesystem
    \/ RegexStep
    \/ OptAssignStep
    \/ OptValueStep

NextPointers ==
    \/ DoCoutStep
    \/ TestStep
    \/ SkipStep
    \/ MakeStep
    \/ MovePtrStep
    \/ CopyPtrStep
    \/ ResetStep
    \/ WeakLockStep
    \/ TemporaryStep
    \/ ReturnStep

NextAll ==
    \/ Next
    \/ DoCerrStep
    \/ TestStep
    \/ CreateDirectoryStep
    \/ CreateDirectoriesStep
    \/ OfstreamStep
    \/ RemoveStep
    \/ RemoveAllStep
    \/ DirectoryIteratorStep
    \/ FileSizeStep
    \/ LastWriteTimeStep
    \/ RegexStep
    \/ OptAssignStep
    \/ OptValueStep
    \/ MakeStep
    \/ MovePtrStep
    \/ CopyPtrStep
    \/ ResetStep
    \/ WeakLockStep
    \/ TemporaryStep

InitFilesystem == Start({"std_filesystem"})
InitExceptions == Start({"std_filesystem", "std_regex", "std_optional"})
InitPointers == Start({"smart_pointers"})
InitAll == Start(AllPrograms)

\* The sequential programs, and all the programs.
SpecFilesystem == InitFilesystem /\ [][NextFilesystem]_vars
SpecExceptions == InitExceptions /\ [][NextExceptions]_vars
SpecPointers == InitPointers /\ [][NextPointers]_vars
SpecAll == InitAll /\ [][NextAll]_vars

(***************************************************************************)
(* Positions in straight-line code.                                        *)
(***************************************************************************)
\* Thread t has written the line.
Said(t, line) ==
    \E i \in 1..Len(Code(t)) :
        /\ i < pc[t]
        /\ Code(t)[i].op = "cout"
        /\ Code(t)[i].msg = line

\* Thread t has returned from its call o on latch l.
Passed(t, o, l) ==
    \E i \in 1..Len(Code(t)) :
        /\ i < pc[t]
        /\ Code(t)[i].op = o
        /\ Code(t)[i].l = l

Holds(t, m) == t \in mtx[m].excl \/ t \in mtx[m].shared

(***************************************************************************)
(* C1.  std_shared_timed_mutex.cpp: at most one thread owns data.mutex_    *)
(* exclusively; while a writer owns it exclusively no other thread owns it *)
(* in either mode; a writer is in its critical section only as the         *)
(* exclusive owner.                                                        *)
(***************************************************************************)
C1_ExclusiveAccess ==
    LET m == mtx["data.mutex_"] IN
    /\ Cardinality(m.excl) <= 1
    /\ m.excl # {} => m.shared = {}
    /\ \A w \in Writers :
          (Running(w) /\ Instr(w).op \in {"write", "unlock"}) => m.excl = {w}
    /\ \A w \in Writers :
          w \in m.excl => \A u \in DOMAIN pc : u # w => ~Holds(u, "data.mutex_")

\* A writer owns the mutex while the other writer and a reader are held off.
C1_Witness ==
    /\ prog = "std_shared_timed_mutex"
    /\ mtx["data.mutex_"].excl = {<<"writer", 1>>}
    /\ At(<<"writer", 2>>, "lock")
    /\ \E r \in Readers : At(r, "lock_shared")
    /\ value >= 1

C3_MainWaitsForWorkers ==
    /\ Passed(Main, "wait", "workers_finished_latch")
          => \A w \in Workers : Passed(w, "count_down", "workers_finished_latch")
    /\ Said(Main, "Main thread: All workers have finished. Proceeding.")
          => \A w \in Workers : Passed(w, "count_down", "workers_finished_latch")

\* main blocked in wait(), was released by the last count_down and has gone on.
C3_Witness ==
    /\ prog = "std_latch"
    /\ Said(Main, "Main thread: All workers have finished. Proceeding.")
    /\ Main \notin fastPath
    /\ latch["workers_finished_latch"] = 0

(***************************************************************************)
(* C4.  std_latch.cpp, scenario 2: a dependent task is past                *)
(* start_latch.wait(), and has written "unblocked and proceeding", only    *)
(* when main has called setup_complete_latch.count_down(); after that one  *)
(* count_down no dependent task is blocked in wait().                      *)
(***************************************************************************)
C4_SetupReleasesDependents ==
    /\ \A d \in Dependents :
          (Passed(d, "wait", "setup_complete_latch")
              \/ Said(d, "Dependent task " \o ToString(d[2]) \o " unblocked and proceeding."))
          => Passed(Main, "count_down", "setup_complete_latch")
    /\ Passed(Main, "count_down", "setup_complete_latch")
          => /\ waiting["setup_complete_latch"] = {}
             /\ \A d \in Dependents : ~At(d, "wait") \/ latch["setup_complete_latch"] = 0

\* The 3 dependent tasks were all blocked in wait() and the one count_down of main
\* has released them all.
C4_Witness ==
    /\ prog = "std_latch"
    /\ Passed(Main, "count_down", "setup_complete_latch")
    /\ \A d \in Dependents :
          Passed(d, "wait", "setup_complete_latch") /\ d \notin fastPath

(***************************************************************************)
(* C5.  std_latch.cpp, scenario 3: a thread is past                        *)
(* rendezvous_latch.arrive_and_wait(), or has written "passed rendezvous   *)
(* latch", only when all 5 threads have written "arriving" and have        *)
(* arrived at the latch.                                                   *)
(***************************************************************************)
Arrived(u) ==
    /\ Said(u, "Thread " \o ToString(u[2]) \o " arriving at rendezvous latch.")
    /\ u \in waiting["rendezvous_latch"] \/ pc[u] > 2

C5_Rendezvous ==
    \A t \in Rendezvous :
        (pc[t] > 2 \/ Said(t, "Thread " \o ToString(t[2]) \o " passed rendezvous latch."))
        => /\ latch["rendezvous_latch"] = 0
           /\ \A u \in Rendezvous : Arrived(u)

\* Thread 1, whose delay is the shortest, arrived last; thread 5 has written
\* "passed" while thread 3, released with it, has not yet.
C5_Witness ==
    /\ prog = "std_latch"
    /\ <<"rendezvous", 1>> \in fastPath
    /\ Said(<<"rendezvous", 5>>, "Thread 5 passed rendezvous latch.")
    /\ At(<<"rendezvous", 3>>, "cout")
    /\ Instr(<<"rendezvous", 3>>).msg = "Thread 3 passed rendezvous latch."

(***************************************************************************)
(* C6.  std_latch.cpp: a latch is single-use.  From its construction on,   *)
(* with the count main gives it, its counter is never negative and a step  *)
(* leaves it as it is or decrements it by one, so that once zero it stays  *)
(* zero; when main returns every latch has been constructed and counted    *)
(* down to zero.                                                           *)
(***************************************************************************)
ConstructorCount(l) ==
    LET code == main_std_latch
        i == CHOOSE k \in 1..Len(code) : code[k].op = "latch" /\ code[k].l = l
    IN code[i].n

C6_SingleUse ==
    /\ [](\A l \in constructed : latch[l] >= 0)
    /\ [][\A l \in Latches :
            /\ l \in constructed
                  => /\ l \in constructed'
                     /\ latch'[l] \in {latch[l], latch[l] - 1}
                     /\ latch[l] = 0 => latch'[l] = 0
            /\ (l \notin constructed /\ l \in constructed')
                  => latch'[l] = ConstructorCount(l)]_vars
    /\ [](Finished(Main) => \A l \in Latches : l \in constructed /\ latch[l] = 0)

\* main has returned: the three latches were constructed and are at zero.
C6_Witness ==
    /\ prog = "std_latch"
    /\ Finished(Main)
    /\ constructed = Latches
    /\ \A l \in Latches : latch[l] = 0

(***************************************************************************)
(* C7.  std_latch.cpp: no thread is blocked in wait() on a latch whose     *)
(* counter is zero; a wait() that finds the counter at zero returns.       *)
(***************************************************************************)
C7_NoLostWakeup ==
    \A l \in Latches :
        /\ waiting[l] # {} => latch[l] > 0
        /\ \A t \in DOMAIN pc :
              (At(t, "wait") /\ Instr(t).l = l /\ latch[l] = 0) => ENABLED Wait(t)

\* main called wait() after the 5 workers had counted down, and a dependent task
\* called wait() after main's count_down; both have gone on.
C7_Witness ==
    /\ prog = "std_latch"
    /\ Main \in fastPath
    /\ \E d \in Dependents :
          /\ d \in fastPath
          /\ Said(d, "Dependent task " \o ToString(d[2]) \o " unblocked and proceeding.")

(***************************************************************************)
(* C8.  std_thread.cpp: "Main thread: tN joined." is on standard output    *)
(* only after the last line of thread N, for N = 1, 2, 3, and the three    *)
(* lines appear once each, in the order t1, t2, t3.                        *)
(***************************************************************************)
Pos(line) ==
    IF \E i \in 1..Len(out) : out[i] = line
    THEN CHOOSE i \in 1..Len(out) : out[i] = line
    ELSE 0

JoinedLine(n) == "Main thread: t" \o ToString(n) \o " joined."
LastLine(n) == LET code == Code(<<"t", n>>) IN code[Len(code)].msg

C8_JoinedAfterFinished ==
    prog = "std_thread" =>
        /\ \A n \in 1..3 :
              Pos(JoinedLine(n)) > 0
              => /\ Pos(LastLine(n)) > 0
                 /\ Pos(LastLine(n)) < Pos(JoinedLine(n))
                 /\ Finished(<<"t", n>>)
                 /\ Cardinality({i \in 1..Len(out) : out[i] = JoinedLine(n)}) = 1
        /\ \A n \in 2..3 :
              Pos(JoinedLine(n)) > 0
              => /\ Pos(JoinedLine(n - 1)) > 0
                 /\ Pos(JoinedLine(n - 1)) < Pos(JoinedLine(n))

\* The threads finished in the order t3, t2, t1 and the three lines are out.
C8_Witness ==
    /\ prog = "std_thread"
    /\ Pos(JoinedLine(3)) > 0
    /\ Pos(LastLine(3)) < Pos(LastLine(2))
    /\ Pos(LastLine(2)) < Pos(LastLine(1))

TimedBranch(ins) == "timeout_ms" \in DOMAIN ins /\ "else_skip" \in DOMAIN ins

\* The places (program, thread, instruction) that hold such a call.
PlacesOf(p, table) ==
    UNION {{<<p, t, i>> : i \in {k \in 1..Len(table[t]) : TimedBranch(table[t][k])}} :
           t \in DOMAIN table}

TimedBranchPlaces ==
    PlacesOf("std_thread", StdThreadTable)
        \cup PlacesOf("std_latch", StdLatchTable)
        \cup PlacesOf("std_shared_timed_mutex", StdMutexTable)

\* C10 as stated: a thread that is at such a call is at the one try_lock_for.
C10_Original ==
    \A t \in DOMAIN pc :
        (Running(t) /\ TimedBranch(Instr(t))) => Instr(t).op = "try_lock_for"

\* C10 as amended: there are two such places, both in main of
\* std_shared_timed_mutex.cpp and both on timed_mtx: the try_lock_for call and the
\* try_lock_shared_for call.  No other thread is ever at such a call.
C10_TwoTimedBranches ==
    /\ Cardinality(TimedBranchPlaces) = 2
    /\ \A t \in DOMAIN pc :
          (Running(t) /\ TimedBranch(Instr(t)))
          => /\ prog = "std_shared_timed_mutex"
             /\ t = Main
             /\ Instr(t).m = "timed_mtx"
             /\ Instr(t).op \in {"try_lock_for", "try_lock_shared_for"}

\* main's try_lock_for has expired while t_holder owned timed_mtx, and main is now
\* at its second timed call, try_lock_shared_for.
C10_Witness ==
    /\ prog = "std_shared_timed_mutex"
    /\ At(Main, "try_lock_shared_for")
    /\ tobj[<<"t_holder", 0>>] = "joined"
    /\ mtx["timed_mtx"].shared = {<<"t_shared_holder", 0>>}

(***************************************************************************)
(* C11.  The state outside the process: the filesystem and the standard    *)
(* error stream.                                                           *)
(***************************************************************************)
\* the part of the filesystem std_filesystem.cpp names
Named(p) == Under(p, testDir) \/ p = tempFile

\* C11 as stated: every program writes only to standard output, no step of any
\* demo changes the filesystem or the standard error stream.
C11_Original == [][fs' = fs /\ err' = err]_vars

\* C11 as it holds: every program other than std_filesystem.cpp leaves the
\* filesystem and the standard error stream unchanged in every step;
\* std_filesystem.cpp changes the filesystem only at ./my_test_dir and below
\* and at ./temp_example_file.txt.
C11_OnlyFilesystemDemo ==
    [][ IF prog # "std_filesystem"
        THEN fs' = fs /\ err' = err
        ELSE \A p \in Paths : fs'[p] # fs[p] => Named(p) ]_vars

\* std_filesystem.cpp has written dummy.txt below ./my_test_dir and the entry
\* it does not name is as it was.
C11_Witness ==
    /\ prog = "std_filesystem"
    /\ IsRegularFile(fs, dummyTxt)
    /\ fs[executable] = BareDirectory[executable]
    /\ err = << >>

(***************************************************************************)
(* C12.  Exceptions and the handlers of main.                              *)
(***************************************************************************)
\* a handler of main has written what() of exception x to std::cout or std::cerr
Printed(x) ==
    \E k \in DOMAIN Code(Main) :
        LET ins == Code(Main)[k]
        IN /\ ins.op \in {"cout", "cerr"}
           /\ "val" \in DOMAIN ins
           /\ ins.val = "e.what()"
           /\ \/ \E j \in DOMAIN out : out[j] = ins.msg \o x.what
              \/ \E j \in DOMAIN err : err[j] = ins.msg \o x.what

\* C12 as stated: every exception raised while a demo runs is caught by a
\* try/catch inside main, which prints the exception's message, and execution
\* continues to the normal end of main: no exception leaves main (which would
\* end the program in std::terminate), and when main has returned the message
\* of every exception raised has been printed.
C12_Original ==
    prog \in {"std_filesystem", "std_regex", "std_optional"} =>
        /\ ~terminated
        /\ Finished(Main) => \A i \in DOMAIN raised : Printed(raised[i])

(***************************************************************************)
(* C13 and C14.  Ownership in smart_pointers.cpp.                          *)
(***************************************************************************)
\* the unique_ptr and shared_ptr objects that own allocation a
Owners(a) == {p \in UniquePointers \cup SharedPointers : ptr[p] = a}

\* main is about to execute the given kind of instruction
MainAt(o) == At(Main, o)

\* C13: each MyResource managed by unique_ptr has at most one owning unique_ptr
\* at any moment: once constructed it has exactly one owner and has not been
\* destroyed, or it has no owner and has been destroyed exactly once.  A move
\* from a unique_ptr (std::move(u1) into u2, std::move(u2) into the parameter
\* of process_unique) leaves the source null.  A destructor of such a resource
\* runs only in the step in which the unique_ptr that owns it goes out of
\* scope, and when main has returned every one of them has run exactly once.
C13_UniqueOwnership ==
    /\ [](\A a \in UniqueAllocations : \A r \in Elements(a) :
            /\ Cardinality(Owners(a)) <= 1
            /\ obj[r].ctor <= 1
            /\ obj[r].ctor = 1 =>
                    \/ Cardinality(Owners(a)) = 1 /\ obj[r].dtor = 0
                    \/ Owners(a) = {} /\ obj[r].dtor = 1
            /\ obj[r].ctor = 0 => Owners(a) = {} /\ obj[r].dtor = 0)
    /\ [][ /\ MainAt("move") /\ Instr(Main).src \in UniquePointers
                => ptr'[Instr(Main).src] = "nullptr"
           /\ \A a \in UniqueAllocations : \A r \in Elements(a) :
                obj'[r].dtor # obj[r].dtor =>
                    /\ MainAt("reset")
                    /\ Instr(Main).scope_exit
                    /\ Owners(a) = {Instr(Main).p} ]_vars
    /\ [](Finished(Main) =>
            \A a \in UniqueAllocations : \A r \in Elements(a) :
                obj[r] = [ctor |-> 1, dtor |-> 1])

\* "Unique One" has been moved from u1 to u2 and from u2 into the parameter of
\* process_unique, which is its only owner; it has not been destroyed.
C13_Witness ==
    /\ ptr["u_ptr"] = "Unique One"
    /\ ptr["u1"] = "nullptr"
    /\ ptr["u2"] = "nullptr"
    /\ Owners("Unique One") = {"u_ptr"}
    /\ obj["Unique One"] = [ctor |-> 1, dtor |-> 0]

\* the source lines that write s1.use_count() (s_ptr.use_count() at line 42)
\* and the value the comments give for it
ShouldBe ==
    { <<137, 1>>, <<145, 2>>, <<42, 3>>, <<153, 2>>, <<161, 1>>, <<171, 2>> }

\* C14: the use_count of a shared resource always equals the number of live
\* shared_ptr objects that own it: 1 after make_shared, 2 after s2 = s1, 3
\* inside process_shared, 2 after it returns, 1 after s2.reset(), 2 after
\* push_back into the vector.  The resource is destroyed exactly in the step
\* in which that count reaches 0, and never twice.
C14_UseCount ==
    /\ [](\A a \in Allocations \ UniqueAllocations :
            /\ use_count[a] = Cardinality(Owners(a))
            /\ obj[a].dtor <= 1
            /\ obj[a].dtor = 1 => use_count[a] = 0)
    /\ [](\A x \in ShouldBe :
            MainAt("cout") /\ "line" \in DOMAIN Instr(Main) /\ Instr(Main).line = x[1]
                => /\ ptr[Instr(Main).p] = "Shared Ten"
                   /\ UseCount(Instr(Main).p) = x[2])
    /\ [][ \A a \in Allocations \ UniqueAllocations :
                obj'[a].dtor # obj[a].dtor
                    <=> use_count[a] > 0 /\ use_count'[a] = 0 ]_vars

\* inside process_shared: s1, s2 and the parameter own "Shared Ten" and its
\* count is 3.
C14_Witness ==
    /\ Owners("Shared Ten") = {"s1", "s2", "s_ptr"}
    /\ use_count["Shared Ten"] = 3
    /\ obj["Shared Ten"] = [ctor |-> 1, dtor |-> 0]

====
